---- MODULE Spec2Model ----
(***************************************************************************)
(* Model of tcms/issuetracker/bitbucket.py: the BitBucketAPI endpoint      *)
(* client and the BitBucket tracker adapter.                               *)
(*                                                                         *)
(* Python strings are sequences of one-character strings, so that          *)
(* str.replace, str.split, str.endswith and f-string formatting are        *)
(* computed character by character.  Dictionary keys are TLA+ strings.     *)
(* None is the one-element sequence <<"None">>, which no character         *)
(* sequence equals.  A call's outcome is Return(v) or Raise(exception).    *)
(***************************************************************************)
EXTENDS Naturals, Sequences, FiniteSets, Bags

VARIABLES
    bug_system,    \* the configuration: base_url, api_username, api_password
    links,         \* the LinkReference table: a bag of rows
    links_before,  \* the LinkReference table when the last call started
    sent,          \* the HTTP requests the last call performed, in order
    last           \* the last call: operation, arguments, environment, outcome

vars == <<bug_system, links, links_before, sent, last>>

-----------------------------------------------------------------------------
(* Bounds *)

\* most line feeds in a templated text (report comment, comment text)
MaxNewlines == 2
\* most path segments after the host in a base URL
MaxSegments == 4

-----------------------------------------------------------------------------
(* Python values *)

None == <<"None">>

Return(v) == [kind |-> "return", value |-> v]
Raise(e) == [kind |-> "raise", exc |-> e]

LF == "\n"
CR == "\r"

Digits == <<"0", "1", "2", "3", "4", "5", "6", "7", "8", "9">>

\* str(n) / f"{n}" for a non-negative int
RECURSIVE str(_)
str(n) ==
    IF n < 10 THEN <<Digits[n + 1]>>
    ELSE str(n \div 10) \o <<Digits[(n % 10) + 1]>>

\* s.replace(old, new), old non-empty: non-overlapping occurrences, left to right
RECURSIVE ReplaceFrom(_, _, _, _)
ReplaceFrom(s, old, new, i) ==
    IF i > Len(s) THEN <<>>
    ELSE IF i + Len(old) - 1 <= Len(s) /\ SubSeq(s, i, i + Len(old) - 1) = old
         THEN new \o ReplaceFrom(s, old, new, i + Len(old))
         ELSE <<s[i]>> \o ReplaceFrom(s, old, new, i + 1)

replace(s, old, new) == ReplaceFrom(s, old, new, 1)

\* s.split(sep) for a one-character sep: always at least one piece
RECURSIVE SplitFrom(_, _, _, _)
SplitFrom(s, sep, i, cur) ==
    IF i > Len(s) THEN <<cur>>
    ELSE IF s[i] = sep THEN <<cur>> \o SplitFrom(s, sep, i + 1, <<>>)
         ELSE SplitFrom(s, sep, i + 1, Append(cur, s[i]))

split(s, sep) == SplitFrom(s, sep, 1, <<>>)

\* s.endswith(suffix)
endswith(s, suffix) ==
    /\ Len(suffix) <= Len(s)
    /\ SubSeq(s, Len(s) - Len(suffix) + 1, Len(s)) = suffix

\* truth value of an optional string: None and "" are false
Truthy(x) == x # None /\ x # <<>>

-----------------------------------------------------------------------------
(* String literals of the source *)

HttpsPrefix == <<"h", "t", "t", "p", "s", ":", "/", "/">>
ApiBaseUrl ==
    <<"h", "t", "t", "p", "s", ":", "/", "/", "a", "p", "i", ".",
      "b", "i", "t", "b", "u", "c", "k", "e", "t", ".", "o", "r", "g">>
api_version == <<"2", ".", "0">>
Repositories == <<"r", "e", "p", "o", "s", "i", "t", "o", "r", "i", "e", "s">>
Slash == <<"/">>
IssuesPath == <<"/", "i", "s", "s", "u", "e", "s">>
ChangesPath == <<"/", "c", "h", "a", "n", "g", "e", "s">>
CommentsPath == <<"/", "c", "o", "m", "m", "e", "n", "t", "s">>
CommentsSort ==
    <<"?", "s", "o", "r", "t", "=", "-", "u", "p", "d", "a", "t", "e", "d", "_", "o", "n">>
IssuesNew == <<"i", "s", "s", "u", "e", "s", "/", "n", "e", "w">>
FailedTest == <<"F", "a", "i", "l", "e", "d", " ", "t", "e", "s", "t", ":", " ">>
ApplicationJson ==
    <<"a", "p", "p", "l", "i", "c", "a", "t", "i", "o", "n", "/", "j", "s", "o", "n">>
KindBug == <<"b", "u", "g">>
PriorityMajor == <<"m", "a", "j", "o", "r">>
Timeout == 30

-----------------------------------------------------------------------------
(* Inputs *)

HttpPrefix == <<"h", "t", "t", "p", ":", "/", "/">>
BitbucketHost == <<"b", "i", "t", "b", "u", "c", "k", "e", "t", ".", "o", "r", "g">>
OtherHost == <<"e", "x", "a", "m", "p", "l", "e", ".", "c", "o", "m">>
Ws1 == <<"w", "s", "1">>
Repo1 == <<"r", "e", "p", "o", "1">>
HttpsColon == <<"h", "t", "t", "p", "s", ":">>

\* "/" + segment, for every segment
RECURSIVE JoinPath(_)
JoinPath(segments) ==
    IF segments = <<>> THEN <<>>
    ELSE Slash \o Head(segments) \o JoinPath(Tail(segments))

Url(scheme, host, segments) == scheme \o host \o JoinPath(segments)

Schemes == {HttpsPrefix, HttpPrefix, <<>>}
Hosts == {BitbucketHost, OtherHost}
\* names with no "/" in them; the empty one gives "//" or a trailing "/"
SegmentNames == {Ws1, Repo1, HttpsColon, <<>>}
Paths == UNION {[1..n -> SegmentNames] : n \in 0..MaxSegments}

\* the base URLs the endpoint derivation is tried on
UrlInputs ==
    {None, <<>>} \cup {Url(s, h, p) : s \in Schemes, h \in Hosts, p \in Paths}

WellFormedUrl == Url(HttpsPrefix, BitbucketHost, <<Ws1, Repo1>>)

\* the base URLs the adapter is configured with: missing, empty, well formed,
\* with a trailing "/", and without a repository
BaseUrls ==
    {None, <<>>, WellFormedUrl,
     Url(HttpsPrefix, BitbucketHost, <<Ws1, Repo1, <<>>>>),
     Url(HttpsPrefix, BitbucketHost, <<Ws1>>)}

\* the base URLs the endpoint client's operations are tried with
ClientUrls == {WellFormedUrl, Url(HttpsPrefix, OtherHost, <<Repo1, Ws1, Ws1>>)}

Usernames == {None, <<>>, <<"u">>}
Passwords == {None, <<>>, <<"p">>}

Executions ==
    {[id |-> 1, case |-> [summary |-> <<"s">>]],
     [id |-> 2, case |-> [summary |-> <<"t">>]]}

RECURSIVE Repeat(_, _)
Repeat(s, n) == IF n = 0 THEN <<>> ELSE s \o Repeat(s, n - 1)

\* templated texts: lines joined by line feeds, and runs of bare line feeds
Texts ==
    {<<"a">> \o Repeat(<<LF, "a">>, n) : n \in 0..MaxNewlines}
    \cup {Repeat(<<LF>>, n) : n \in 0..MaxNewlines}

IssueIds == {1, 42}
BugIds == {42}
CommentIds == {7}

Restrict(f, keys) == [k \in keys |-> f[k]]

\* what the remote side answers to a create: an issue, or an error object
CreateBodies == {[id |-> i] : i \in IssueIds} \cup {[type |-> <<"e">>]}

\* what the remote side answers to a get: the whole issue, the issue with one
\* of its four keys missing, and the issue whose content lacks raw
FullIssue(content) ==
    [id |-> 1, content |-> content, state |-> <<"o", "p", "e", "n">>, title |-> <<"t">>]

IssueKeys == {"id", "content", "state", "title"}

IssueBodies ==
    {FullIssue([raw |-> <<"d">>]), FullIssue([html |-> <<"d">>])}
    \cup {Restrict(FullIssue([raw |-> <<"d">>]), IssueKeys \ {k}) : k \in IssueKeys}

OtherBodies == {[type |-> <<"o", "k">>]}
ChangeData == {[state |-> <<"n", "e", "w">>]}
\* what the database answers to get_or_create, which only an answer with an id
\* lets the call reach
DbAnswers(env) ==
    IF env.kind = "response" /\ env.response.parsable
       /\ "id" \in DOMAIN env.response.body
    THEN {"ok", "DatabaseError"}
    ELSE {"ok"}
DisplayUrls == {WellFormedUrl \o IssuesPath \o Slash \o str(i) : i \in IssueIds}

-----------------------------------------------------------------------------
(* BitBucketAPI *)

\* Faulty variant: workspace and repository taken one segment too early
_construct_endpoint_url_off_by_one(version, url) ==
    IF url = None THEN Raise("AttributeError")
    ELSE LET splitted_url == split(replace(url, HttpsPrefix, <<>>), "/")
         IN  IF Len(splitted_url) < 2 THEN Raise("IndexError")
             ELSE Return(ApiBaseUrl \o Slash \o version \o Slash \o Repositories
                         \o Slash \o splitted_url[1] \o Slash \o splitted_url[2])

\* Faulty variant: the https:// prefix is not removed before splitting
_construct_endpoint_url_no_strip(version, url) ==
    IF url = None THEN Raise("AttributeError")
    ELSE LET splitted_url == split(url, "/")
         IN  IF Len(splitted_url) < 3 THEN Raise("IndexError")
             ELSE Return(ApiBaseUrl \o Slash \o version \o Slash \o Repositories
                         \o Slash \o splitted_url[2] \o Slash \o splitted_url[3])

\* BitBucketAPI._construct_endpoint_url: url.replace on None is an
\* AttributeError, splitted_url[1] or [2] past the end is an IndexError
_construct_endpoint_url(version, url) ==
    IF url = None THEN Raise("AttributeError")
    ELSE LET splitted_url == split(replace(url, HttpsPrefix, <<>>), "/")
         IN  IF Len(splitted_url) < 2 THEN Raise("IndexError")
             ELSE LET workspace == splitted_url[2]
                  IN  IF Len(splitted_url) < 3 THEN Raise("IndexError")
                      ELSE LET repository == splitted_url[3]
                           IN  Return(ApiBaseUrl \o Slash \o version \o Slash
                                      \o Repositories \o Slash \o workspace
                                      \o Slash \o repository)

JsonHeaders == [k \in {"Accept", "Content-type"} |-> ApplicationJson]

HTTPBasicAuth(username, password) == [username |-> username, password |-> password]

\* self._construct_endpoint_url(api_version, base_url), computed once for each
\* base URL of the model
EndpointUrl ==
    [url \in UrlInputs \cup BaseUrls \cup ClientUrls |->
        _construct_endpoint_url(api_version, url)]

\* BitBucketAPI.__init__: the object, or the exception of the endpoint derivation
BitBucketAPI(base_url, api_username, api_password) ==
    LET endpoint == EndpointUrl[base_url]
    IN  IF endpoint.kind = "raise" THEN endpoint
        ELSE Return([endpoint_url |-> endpoint.value,
                     headers |-> JsonHeaders,
                     auth |-> HTTPBasicAuth(api_username, api_password)])

-----------------------------------------------------------------------------
(* The remote side and the host's table, as the calls see them *)

\* What requests.request does with one request: it raises, or it returns a
\* response whose body is JSON (parsable) or is not
Response(status_code, parsable, body) ==
    [status_code |-> status_code, parsable |-> parsable, body |-> body]

Answers(bodies) ==
    {[kind |-> "ConnectionError"]}
    \cup {[kind |-> "response", response |-> Response(200, TRUE, b)] : b \in bodies}
    \cup {[kind |-> "response",
           response |-> Response(500, FALSE, [text |-> <<"<">>])]}

\* Response.json()
json(response) ==
    IF response.parsable THEN Return(response.body) ELSE Raise("JSONDecodeError")

\* The request as requests.request receives it: method, url, timeout and kwargs
Request(method, url, kwargs) ==
    [k \in {"method", "url", "timeout"} \cup DOMAIN kwargs |->
        IF k = "method" THEN method
        ELSE IF k = "url" THEN url
        ELSE IF k = "timeout" THEN Timeout
        ELSE kwargs[k]]

\* Faulty variant: the response of a DELETE is parsed like the others
_request_always_json(method, url, kwargs, env) ==
    [sent |-> <<Request(method, url, kwargs)>>,
     outcome |-> IF env.kind # "response" THEN Raise("RequestException")
                 ELSE json(env.response)]

\* BitBucketAPI._request: one requests.request call; the raw response for
\* DELETE, the parsed body otherwise
_request(method, url, kwargs, env) ==
    [sent |-> <<Request(method, url, kwargs)>>,
     outcome |-> IF env.kind # "response" THEN Raise("RequestException")
                 ELSE IF method = "DELETE" THEN Return(env.response)
                 ELSE json(env.response)]

create_issue(self, data, env) ==
    _request("POST", self.endpoint_url \o IssuesPath,
             [headers |-> self.headers, auth |-> self.auth, json |-> data], env)

get_issue(self, issue_id, env) ==
    _request("GET", self.endpoint_url \o IssuesPath \o Slash \o str(issue_id),
             [headers |-> self.headers, auth |-> self.auth], env)

update_issue(self, issue_id, data, env) ==
    _request("POST",
             self.endpoint_url \o IssuesPath \o Slash \o str(issue_id) \o ChangesPath,
             [headers |-> self.headers, auth |-> self.auth, json |-> data], env)

add_comment(self, issue_id, comment, env) ==
    _request("POST",
             self.endpoint_url \o IssuesPath \o Slash \o str(issue_id)
                 \o CommentsPath \o Slash,
             [headers |-> self.headers, auth |-> self.auth, json |-> comment], env)

get_comments(self, issue_id, env) ==
    _request("GET",
             self.endpoint_url \o IssuesPath \o Slash \o str(issue_id)
                 \o CommentsPath \o CommentsSort,
             [headers |-> self.headers, auth |-> self.auth], env)

delete_comment(self, issue_id, comment_id, env) ==
    _request("DELETE",
             self.endpoint_url \o IssuesPath \o Slash \o str(issue_id)
                 \o CommentsPath \o Slash \o str(comment_id),
             [headers |-> self.headers, auth |-> self.auth], env)

\* Faulty variant: the row is not flagged as a defect
LinkRow_not_defect(execution, url, is_defect) ==
    [execution |-> execution.id, url |-> url, is_defect |-> FALSE]

\* A row of the LinkReference table
LinkRow(execution, url, is_defect) ==
    [execution |-> execution.id, url |-> url, is_defect |-> is_defect]

\* Faulty variant: a row is added even when one with these values exists
get_or_create_always_create(table, execution, url, is_defect, db) ==
    IF db # "ok" THEN [links |-> table, outcome |-> Raise(db)]
    ELSE [links |-> table (+) SetToBag({LinkRow(execution, url, is_defect)}),
          outcome |-> Return(TRUE)]

\* LinkReference.objects.get_or_create(execution=, url=, is_defect=): the row
\* with these values if there is one, a new row if there is none; db is the
\* database's answer ("ok" or the error it raises)
get_or_create(table, execution, url, is_defect, db) ==
    LET row == LinkRow(execution, url, is_defect)
        n == CopiesIn(row, table)
    IN  IF db # "ok" THEN [links |-> table, outcome |-> Raise(db)]
        ELSE IF n > 1
             THEN [links |-> table, outcome |-> Raise("MultipleObjectsReturned")]
        ELSE IF n = 1 THEN [links |-> table, outcome |-> Return(FALSE)]
        ELSE [links |-> table (+) SetToBag({row}), outcome |-> Return(TRUE)]

-----------------------------------------------------------------------------
(* BitBucket, the tracker adapter *)

\* IssueTrackerType.rpc_credentials: the configured user name and password
rpc_credentials == <<bug_system.api_username, bug_system.api_password>>

\* BitBucket._rpc_connection
_rpc_connection ==
    BitBucketAPI(bug_system.base_url, rpc_credentials[1], rpc_credentials[2])

\* IssueTrackerType.rpc: the endpoint client, built when a call reaches for it
rpc == _rpc_connection

\* IssueTrackerType.bug_id_from_url, for a display URL that ends in the issue
\* number: the value of its trailing run of digits
DigitValue(c) == CHOOSE n \in 0..9 : Digits[n + 1] = c

IsDigit(c) == \E n \in 1..10 : Digits[n] = c

RECURSIVE bug_id_from_url(_)
bug_id_from_url(url) ==
    IF url = <<>> \/ ~IsDigit(url[Len(url)]) THEN 0
    ELSE 10 * bug_id_from_url(SubSeq(url, 1, Len(url) - 1)) + DigitValue(url[Len(url)])

\* Faulty variant: disabled only when all three are empty
is_adding_testcase_to_issue_disabled_any ==
    ~(Truthy(bug_system.base_url) \/ Truthy(rpc_credentials[1])
      \/ Truthy(rpc_credentials[2]))

\* BitBucket.is_adding_testcase_to_issue_disabled
is_adding_testcase_to_issue_disabled ==
    ~(Truthy(bug_system.base_url) /\ Truthy(rpc_credentials[1])
      /\ Truthy(rpc_credentials[2]))

\* BitBucket._report_issue, the data it sends
ReportData(execution, comment) ==
    [title |-> FailedTest \o execution.case.summary,
     kind |-> KindBug,
     priority |-> PriorityMajor,
     content |-> [raw |-> replace(comment, <<LF>>, <<CR, LF>>)]]

\* BitBucket._report_issue, the statements under try: what was sent, the table
\* afterwards, and the pair returned or the exception raised
ReportTry(execution, data, env, db) ==
    LET api == rpc
    IN  IF api.kind = "raise"
        THEN [sent |-> <<>>, links |-> links, outcome |-> api]
        ELSE
        LET r == create_issue(api.value, data, env)
        IN  IF r.outcome.kind = "raise"
            THEN [sent |-> r.sent, links |-> links, outcome |-> r.outcome]
            ELSE
            LET issue == r.outcome.value
            IN  IF "id" \notin DOMAIN issue
                THEN [sent |-> r.sent, links |-> links, outcome |-> Raise("KeyError")]
                ELSE
                LET issue_url ==
                        bug_system.base_url \o IssuesPath \o Slash \o str(issue.id)
                    g == get_or_create(links, execution, issue_url, TRUE, db)
                IN  IF g.outcome.kind = "raise"
                    THEN [sent |-> r.sent, links |-> g.links, outcome |-> g.outcome]
                    ELSE [sent |-> r.sent, links |-> g.links,
                          outcome |-> Return(<<issue, issue_url>>)]

\* Faulty variant: no "/" is added to a base URL that lacks one
ReportFallback_no_slash(url) ==
    IF url = None THEN Raise("AttributeError")
    ELSE Return(<<None, url \o IssuesNew>>)

\* BitBucket._report_issue, the except branch: url.endswith on None is an
\* AttributeError that nothing catches
ReportFallback(url) ==
    IF url = None THEN Raise("AttributeError")
    ELSE Return(<<None, (IF ~endswith(url, Slash) THEN url \o Slash ELSE url)
                        \o IssuesNew>>)

\* BitBucket._report_issue; caught is the exception the except branch handled
_report_issue(execution, comment, env, db) ==
    LET t == ReportTry(execution, ReportData(execution, comment), env, db)
    IN  IF t.outcome.kind = "return"
        THEN [sent |-> t.sent, links |-> t.links, caught |-> "none",
              outcome |-> t.outcome]
        ELSE [sent |-> t.sent, links |-> t.links, caught |-> t.outcome.exc,
              outcome |-> ReportFallback(bug_system.base_url)]

\* Faulty variant: line feeds become CR LF, as in _report_issue
CommentBody_crlf(text) == [content |-> [raw |-> replace(text, <<LF>>, <<CR, LF>>)]]

\* BitBucket.post_comment, the body it sends
CommentBody(text) == [content |-> [raw |-> replace(text, <<LF>>, <<LF, LF>>)]]

\* BitBucket.post_comment; text is what self.text(execution) gave
post_comment(execution, bug_id, text, env) ==
    LET comment_body == CommentBody(text)
        api == rpc
    IN  IF api.kind = "raise" THEN [sent |-> <<>>, outcome |-> api]
        ELSE LET r == add_comment(api.value, bug_id, comment_body, env)
             IN  [sent |-> r.sent,
                  outcome |-> IF r.outcome.kind = "raise" THEN r.outcome
                              ELSE Return(None)]

\* Faulty variant: status and title are taken from each other's key
DetailsOf_swapped(issue, url) ==
    IF "id" \notin DOMAIN issue THEN Raise("KeyError")
    ELSE IF "content" \notin DOMAIN issue THEN Raise("KeyError")
    ELSE IF "raw" \notin DOMAIN issue.content THEN Raise("KeyError")
    ELSE IF "state" \notin DOMAIN issue THEN Raise("KeyError")
    ELSE IF "title" \notin DOMAIN issue THEN Raise("KeyError")
    ELSE Return([id |-> issue.id,
                 description |-> issue.content.raw,
                 status |-> issue.title,
                 title |-> issue.state,
                 url |-> url])

\* BitBucket.details, the dictionary built from the issue: the first key that
\* is missing is a KeyError
DetailsOf(issue, url) ==
    IF "id" \notin DOMAIN issue THEN Raise("KeyError")
    ELSE IF "content" \notin DOMAIN issue THEN Raise("KeyError")
    ELSE IF "raw" \notin DOMAIN issue.content THEN Raise("KeyError")
    ELSE IF "state" \notin DOMAIN issue THEN Raise("KeyError")
    ELSE IF "title" \notin DOMAIN issue THEN Raise("KeyError")
    ELSE Return([id |-> issue.id,
                 description |-> issue.content.raw,
                 status |-> issue.state,
                 title |-> issue.title,
                 url |-> url])

\* BitBucket.details
details(url, env) ==
    LET api == rpc
    IN  IF api.kind = "raise" THEN [sent |-> <<>>, outcome |-> api]
        ELSE LET r == get_issue(api.value, bug_id_from_url(url), env)
             IN  [sent |-> r.sent,
                  outcome |-> IF r.outcome.kind = "raise" THEN r.outcome
                              ELSE DetailsOf(r.outcome.value, url)]

-----------------------------------------------------------------------------
(* The calls *)

NoCall == [op |-> "none"]

Called(op, args, r) ==
    /\ links_before' = links
    /\ sent' = r.sent
    /\ last' = [op |-> op, args |-> args, outcome |-> r.outcome]
    /\ UNCHANGED bug_system

ReportIssue ==
    \E execution \in Executions, comment \in Texts, env \in Answers(CreateBodies) :
      \E db \in DbAnswers(env) :
        LET r == _report_issue(execution, comment, env, db)
        IN  /\ links' = r.links
            /\ Called("_report_issue",
                      [execution |-> execution, comment |-> comment, env |-> env,
                       db |-> db, caught |-> r.caught], r)

PostComment ==
    \E execution \in Executions, bug_id \in BugIds, text \in Texts,
       env \in Answers(OtherBodies) :
        /\ Called("post_comment",
                  [execution |-> execution, bug_id |-> bug_id, text |-> text,
                   env |-> env],
                  post_comment(execution, bug_id, text, env))
        /\ UNCHANGED links

Details ==
    \E url \in DisplayUrls, env \in Answers(IssueBodies) :
        /\ Called("details", [url |-> url, env |-> env], details(url, env))
        /\ UNCHANGED links

IsAddingTestcaseToIssueDisabled ==
    /\ Called("is_adding_testcase_to_issue_disabled", <<>>,
              [sent |-> <<>>,
               outcome |-> Return(is_adding_testcase_to_issue_disabled)])
    /\ UNCHANGED links

RpcConnection ==
    /\ Called("_rpc_connection", <<>>, [sent |-> <<>>, outcome |-> _rpc_connection])
    /\ UNCHANGED links

\* The six operations of a constructed endpoint client, called directly
CreateIssue ==
    /\ rpc.kind = "return"
    /\ \E execution \in Executions, comment \in Texts, env \in Answers(CreateBodies) :
        LET data == ReportData(execution, comment)
        IN  Called("create_issue", [data |-> data, env |-> env],
                   create_issue(rpc.value, data, env))
    /\ UNCHANGED links

GetIssue ==
    /\ rpc.kind = "return"
    /\ \E issue_id \in IssueIds, env \in Answers(IssueBodies) :
        Called("get_issue", [issue_id |-> issue_id, env |-> env],
               get_issue(rpc.value, issue_id, env))
    /\ UNCHANGED links

UpdateIssue ==
    /\ rpc.kind = "return"
    /\ \E issue_id \in IssueIds, data \in ChangeData, env \in Answers(OtherBodies) :
        Called("update_issue", [issue_id |-> issue_id, data |-> data, env |-> env],
               update_issue(rpc.value, issue_id, data, env))
    /\ UNCHANGED links

AddComment ==
    /\ rpc.kind = "return"
    /\ \E issue_id \in IssueIds, text \in Texts, env \in Answers(OtherBodies) :
        LET comment == CommentBody(text)
        IN  Called("add_comment",
                   [issue_id |-> issue_id, comment |-> comment, env |-> env],
                   add_comment(rpc.value, issue_id, comment, env))
    /\ UNCHANGED links

GetComments ==
    /\ rpc.kind = "return"
    /\ \E issue_id \in IssueIds, env \in Answers(OtherBodies) :
        Called("get_comments", [issue_id |-> issue_id, env |-> env],
               get_comments(rpc.value, issue_id, env))
    /\ UNCHANGED links

DeleteComment ==
    /\ rpc.kind = "return"
    /\ \E issue_id \in IssueIds, comment_id \in CommentIds,
          env \in Answers(OtherBodies) :
        Called("delete_comment",
               [issue_id |-> issue_id, comment_id |-> comment_id, env |-> env],
               delete_comment(rpc.value, issue_id, comment_id, env))
    /\ UNCHANGED links

Fresh ==
    /\ links = EmptyBag
    /\ links_before = EmptyBag
    /\ sent = <<>>
    /\ last = NoCall

\* The tracker adapter, as the host application calls it
Init ==
    /\ bug_system \in [base_url : BaseUrls, api_username : {<<"u">>},
                       api_password : {<<"p">>}]
    /\ Fresh

Next ==
    \/ ReportIssue
    \/ PostComment
    \/ Details
    \/ IsAddingTestcaseToIssueDisabled

Spec == Init /\ [][Next]_vars

\* The endpoint client's six operations
InitApi ==
    /\ bug_system \in [base_url : ClientUrls, api_username : Usernames,
                       api_password : Passwords]
    /\ Fresh

NextApi ==
    \/ CreateIssue
    \/ GetIssue
    \/ UpdateIssue
    \/ AddComment
    \/ GetComments
    \/ DeleteComment

SpecApi == InitApi /\ [][NextApi]_vars

\* The configuration alone: the endpoint derivation and the completeness
\* check, over every base URL of UrlInputs and every pair of credentials
InitConfig ==
    /\ bug_system \in [base_url : UrlInputs, api_username : Usernames,
                       api_password : Passwords]
    /\ Fresh

NextConfig ==
    \/ RpcConnection
    \/ IsAddingTestcaseToIssueDisabled

SpecConfig == InitConfig /\ [][NextConfig]_vars

-----------------------------------------------------------------------------
(* What the claims are stated with: literals and counts written out
   independently of the operators above *)

RepositoriesUrl ==
    <<"h", "t", "t", "p", "s", ":", "/", "/", "a", "p", "i", ".", "b", "i", "t",
      "b", "u", "c", "k", "e", "t", ".", "o", "r", "g", "/", "2", ".", "0", "/",
      "r", "e", "p", "o", "s", "i", "t", "o", "r", "i", "e", "s", "/">>

Ws1Repo1Endpoint ==
    <<"h", "t", "t", "p", "s", ":", "/", "/", "a", "p", "i", ".", "b", "i", "t",
      "b", "u", "c", "k", "e", "t", ".", "o", "r", "g", "/", "2", ".", "0", "/",
      "r", "e", "p", "o", "s", "i", "t", "o", "r", "i", "e", "s", "/", "w", "s",
      "1", "/", "r", "e", "p", "o", "1">>

Repo1Ws1Endpoint ==
    <<"h", "t", "t", "p", "s", ":", "/", "/", "a", "p", "i", ".", "b", "i", "t",
      "b", "u", "c", "k", "e", "t", ".", "o", "r", "g", "/", "2", ".", "0", "/",
      "r", "e", "p", "o", "s", "i", "t", "o", "r", "i", "e", "s", "/", "r", "e",
      "p", "o", "1", "/", "w", "s", "1">>

IdText(i) == IF i = 1 THEN <<"1">> ELSE IF i = 7 THEN <<"7">> ELSE <<"4", "2">>

\* a base URL of the form https://bitbucket.org/{workspace}/{repository}[/...]
HasForm(url, workspace, repository) ==
    LET stem == Url(HttpsPrefix, BitbucketHost, <<workspace, repository>>)
    IN  /\ url # None
        /\ Len(url) >= Len(stem)
        /\ SubSeq(url, 1, Len(stem)) = stem
        /\ Len(url) > Len(stem) => url[Len(stem) + 1] = "/"

Names == SegmentNames \ {<<>>}

EndsInHttps(name) ==
    Len(name) >= 6 /\ SubSeq(name, Len(name) - 5, Len(name)) = <<"h", "t", "t", "p", "s", ":">>

Count(s, c) == Cardinality({i \in DOMAIN s : s[i] = c})

Occurrences(s, word) ==
    Cardinality({i \in 1..Len(s) :
        i + Len(word) - 1 <= Len(s) /\ SubSeq(s, i, i + Len(word) - 1) = word})

\* every line feed of text replaced by with
RECURSIVE Expand(_, _)
Expand(text, with) ==
    IF text = <<>> THEN <<>>
    ELSE (IF Head(text) = LF THEN with ELSE <<Head(text)>>) \o Expand(Tail(text), with)

Empty(x) == x = None \/ Len(x) = 0

\* the configurations of Spec whose endpoint client can be built
Usable == bug_system.base_url \in {WellFormedUrl, WellFormedUrl \o <<"/">>}

IsResponse(env) == env.kind = "response"
IsJson(env) == IsResponse(env) /\ env.response.parsable
HasId(env) == IsJson(env) /\ "id" \in DOMAIN env.response.body

-----------------------------------------------------------------------------
(* Claims about the configuration, under SpecConfig *)

\* C3: is_adding_testcase_to_issue_disabled() returns true whenever one of
\* base_url, api_username, api_password is None or the empty string, false
\* exactly when all three are non-empty, and sends no request either way.
C3_DisabledUnlessComplete ==
    last.op = "is_adding_testcase_to_issue_disabled" =>
        /\ last.outcome =
               Return(\/ Empty(bug_system.base_url)
                      \/ Empty(bug_system.api_username)
                      \/ Empty(bug_system.api_password))
        /\ sent = <<>>

C3_Witness ==
    /\ last.op = "is_adding_testcase_to_issue_disabled"
    /\ ~Empty(bug_system.base_url)
    /\ ~Empty(bug_system.api_username)
    /\ bug_system.api_password = <<"p">>
    /\ last.outcome = Return(FALSE)

\* C4: for every base URL https://bitbucket.org/{workspace}/
\* {repository} followed by any further segments, constructing the client
\* derives https://api.bitbucket.org/2.0/repositories/{workspace}/{repository},
\* workspace and repository taken verbatim.
C4_EndpointOfEveryUrlOfTheForm ==
    last.op = "_rpc_connection" =>
        \A workspace \in Names, repository \in Names :
            HasForm(bug_system.base_url, workspace, repository) =>
                /\ last.outcome.kind = "return"
                /\ last.outcome.value.endpoint_url =
                       RepositoriesUrl \o workspace \o <<"/">> \o repository

\* C4, the part that holds: the same, for workspace and repository that do
\* not end in "https:" (an "https:" followed by an empty segment spells a
\* second "https://", which replace removes with the first).
C4_EndpointOfWellFormedUrl ==
    last.op = "_rpc_connection" =>
        \A workspace \in SegmentNames, repository \in SegmentNames :
            (/\ HasForm(bug_system.base_url, workspace, repository)
             /\ ~EndsInHttps(workspace)
             /\ ~EndsInHttps(repository)) =>
                /\ last.outcome.kind = "return"
                /\ last.outcome.value.endpoint_url =
                       RepositoriesUrl \o workspace \o <<"/">> \o repository

C4_Witness ==
    /\ last.op = "_rpc_connection"
    /\ bug_system.base_url =
           Url(HttpsPrefix, BitbucketHost, <<Ws1, Repo1, HttpsColon, <<>>>>)
    /\ last.outcome.kind = "return"
    /\ last.outcome.value.endpoint_url = Ws1Repo1Endpoint

\* C5 as stated: every base URL string that is not of the form
\* https://bitbucket.org/{workspace}/{repository}[/...] makes the endpoint
\* derivation fail with an index-out-of-range failure.
C5_MalformedAlwaysFails ==
    (/\ last.op = "_rpc_connection"
     /\ bug_system.base_url # None
     /\ \A workspace \in SegmentNames, repository \in SegmentNames :
            ~HasForm(bug_system.base_url, workspace, repository))
    => last.outcome = Raise("IndexError")

\* C5 amended: the endpoint derivation fails with an index-out-of-range
\* failure exactly when the base URL string, with every "https://" removed,
\* holds fewer than two "/" (fewer than three segments); every other string,
\* an http:// URL or another host included, yields an endpoint; a missing
\* base URL (None) fails with an attribute error.
C5_FailsOnFewerThanThreeSegments ==
    last.op = "_rpc_connection" =>
        LET url == bug_system.base_url
            slashes == Count(url, "/") - 2 * Occurrences(url, HttpsPrefix)
        IN  IF url = None THEN last.outcome = Raise("AttributeError")
            ELSE IF slashes < 2 THEN last.outcome = Raise("IndexError")
            ELSE last.outcome.kind = "return"

C5_Witness ==
    /\ last.op = "_rpc_connection"
    /\ bug_system.base_url = Url(HttpPrefix, BitbucketHost, <<Ws1, Repo1>>)
    /\ last.outcome.kind = "return"

-----------------------------------------------------------------------------
(* Claims about report_issue and the link table, under Spec *)

IsReport == last.op = "_report_issue"

\* base_url + "/issues/" + id, for the id the remote side answered with
IssueUrl ==
    bug_system.base_url \o <<"/", "i", "s", "s", "u", "e", "s", "/">>
        \o IdText(last.args.env.response.body.id)

\* the link record of the last report: its execution, the issue URL, a defect
ReportRow == [execution |-> last.args.execution.id, url |-> IssueUrl, is_defect |-> TRUE]

\* base_url + "issues/new" after a "/", base_url + "/issues/new" otherwise
ManualUrl ==
    LET url == bug_system.base_url
    IN  IF url[Len(url)] = "/"
        THEN url \o <<"i", "s", "s", "u", "e", "s", "/", "n", "e", "w">>
        ELSE url \o <<"/", "i", "s", "s", "u", "e", "s", "/", "n", "e", "w">>

\* create_issue was called and it raised, or answered without an id, or
\* get_or_create raised
FailedInside ==
    IsReport /\ Usable /\ (~HasId(last.args.env) \/ last.args.db # "ok")

\* create_issue answered with an id and get_or_create succeeded
Succeeded ==
    IsReport /\ Usable /\ HasId(last.args.env) /\ last.args.db = "ok"

ReturnsIssue ==
    /\ last.outcome.kind = "return"
    /\ last.outcome.value[1] = last.args.env.response.body
    /\ last.outcome.value[2] = IssueUrl

\* C2 as stated: on success report_issue returns (issue, U), issue the
\* response unchanged and U = base_url + "/issues/" + id, and the call
\* creates exactly one link record, keyed by (execution, U), is_defect true.
C2_CreatesExactlyOne ==
    Succeeded =>
        /\ ReturnsIssue
        /\ links = links_before (+) SetToBag({ReportRow})

\* C2 amended: on success report_issue returns (issue, U) as stated, and
\* afterwards exactly one link record keyed by (execution, U) with is_defect
\* true exists: the call creates it when there was none and creates no
\* record when there was one.
C2_OneRecordAfterwards ==
    Succeeded =>
        /\ ReturnsIssue
        /\ CopiesIn(ReportRow, links) = 1
        /\ links = IF CopiesIn(ReportRow, links_before) = 0
                   THEN links_before (+) SetToBag({ReportRow})
                   ELSE links_before

C2_Witness ==
    /\ Succeeded
    /\ last.args.env.response.body.id = 42
    /\ last.outcome.value[2] = bug_system.base_url \o IssuesPath \o <<"/", "4", "2">>
    /\ CopiesIn(ReportRow, links_before) = 1
    /\ CopiesIn(ReportRow, links) = 1

\* C9: report_issue never lets an exception out: whatever base_url is
\* (well formed, malformed, empty, None) and whatever the construction of
\* the client, the remote call and the link persistence do, it returns a
\* pair whose second component is a URL string.
C9_NeverRaises ==
    IsReport =>
        /\ last.outcome.kind = "return"
        /\ last.outcome.value[2] # None

\* C10: the link table holds at most one record per (execution, url,
\* is_defect = true); a report whose issue is already linked to the
\* execution adds none; every record was added by a report_issue whose
\* create_issue had answered with that issue; no call changes or removes a
\* record.
C10_LinkTable ==
    /\ \A row \in BagToSet(links) : CopiesIn(row, links) = 1 /\ row.is_defect
    /\ links_before \sqsubseteq links
    /\ links # links_before =>
           /\ IsReport
           /\ HasId(last.args.env)
           /\ Len(sent) = 1
           /\ sent[1].method = "POST"
           /\ links = links_before (+) SetToBag({ReportRow})
    /\ (Succeeded /\ CopiesIn(ReportRow, links_before) > 0) => links = links_before

C10_Witness ==
    /\ Succeeded
    /\ links = links_before
    /\ BagCardinality(links) = 2
    /\ \E row \in BagToSet(links) : row.execution # last.args.execution.id

-----------------------------------------------------------------------------
(* Claims about details and post_comment, under Spec *)

\* the response holds id, content.raw, state and title
Complete(env) ==
    /\ IsJson(env)
    /\ {"id", "content", "state", "title"} \subseteq DOMAIN env.response.body
    /\ "raw" \in DOMAIN env.response.body.content

\* C6: details(url), when the endpoint client can be built, calls get_issue
\* exactly once with the identifier at the end of url; for a response
\* holding id, content.raw, state and title it returns {id, description:
\* content.raw, status: state, title, url: the url given}; when a key is
\* missing or get_issue fails (and when the client cannot be built) the
\* failure reaches the caller and nothing is returned.
C6_Details ==
    last.op = "details" =>
        LET url == last.args.url
            env == last.args.env
        IN  IF ~Usable THEN sent = <<>> /\ last.outcome.kind = "raise"
            ELSE /\ Len(sent) = 1
                 /\ sent[1].method = "GET"
                 /\ \E i \in IssueIds :
                        /\ url = WellFormedUrl \o IssuesPath \o <<"/">> \o IdText(i)
                        /\ sent[1].url =
                               Ws1Repo1Endpoint \o IssuesPath \o <<"/">> \o IdText(i)
                 /\ IF Complete(env)
                    THEN last.outcome =
                             Return([id |-> env.response.body.id,
                                     description |-> env.response.body.content.raw,
                                     status |-> env.response.body.state,
                                     title |-> env.response.body.title,
                                     url |-> url])
                    ELSE last.outcome.kind = "raise"

C6_Witness ==
    /\ last.op = "details"
    /\ Complete(last.args.env)
    /\ last.args.url = WellFormedUrl \o IssuesPath \o <<"/", "4", "2">>
    /\ last.outcome.kind = "return"
    /\ last.outcome.value.status = <<"o", "p", "e", "n">>
    /\ last.outcome.value.url = last.args.url

\* C7: post_comment(execution, bug_id), when the endpoint client can be
\* built, sends exactly one add_comment request for bug_id with the body
\* {content: {raw: T}}, T the comment text with every LF replaced by two
\* LFs; it returns None, and a failure of add_comment reaches the caller;
\* report_issue sends its description with every LF replaced by CR LF.
C7_CommentBody ==
    /\ (last.op = "post_comment" /\ Usable) =>
           /\ Len(sent) = 1
           /\ sent[1].method = "POST"
           /\ sent[1].url =
                  Ws1Repo1Endpoint \o IssuesPath \o <<"/">> \o IdText(last.args.bug_id)
                      \o <<"/", "c", "o", "m", "m", "e", "n", "t", "s", "/">>
           /\ sent[1].json = [content |-> [raw |-> Expand(last.args.text, <<LF, LF>>)]]
           /\ IF IsJson(last.args.env) THEN last.outcome = Return(None)
              ELSE last.outcome.kind = "raise"
    /\ (IsReport /\ Usable) =>
           /\ Len(sent) = 1
           /\ sent[1].json.content.raw = Expand(last.args.comment, <<CR, LF>>)

C7_Witness ==
    /\ last.op = "post_comment"
    /\ last.args.text = <<"a", LF, "a", LF, "a">>
    /\ Len(sent) = 1
    /\ sent[1].json.content.raw = <<"a", LF, LF, "a", LF, LF, "a">>
    /\ last.outcome = Return(None)

-----------------------------------------------------------------------------
(* Claims about the endpoint client, under SpecApi *)

ClientEndpoint ==
    IF bug_system.base_url = WellFormedUrl THEN Ws1Repo1Endpoint ELSE Repo1Ws1Endpoint

\* the method and the URL each operation asks for
Asked(op, args) ==
    LET issue == ClientEndpoint \o IssuesPath \o <<"/">>
    IN  CASE op = "create_issue" ->
                <<"POST", ClientEndpoint \o <<"/", "i", "s", "s", "u", "e", "s">>>>
          [] op = "get_issue" -> <<"GET", issue \o IdText(args.issue_id)>>
          [] op = "update_issue" ->
                <<"POST", issue \o IdText(args.issue_id)
                              \o <<"/", "c", "h", "a", "n", "g", "e", "s">>>>
          [] op = "add_comment" ->
                <<"POST", issue \o IdText(args.issue_id)
                              \o <<"/", "c", "o", "m", "m", "e", "n", "t", "s", "/">>>>
          [] op = "get_comments" ->
                <<"GET", issue \o IdText(args.issue_id)
                             \o <<"/", "c", "o", "m", "m", "e", "n", "t", "s">>
                             \o CommentsSort>>
          [] op = "delete_comment" ->
                <<"DELETE", issue \o IdText(args.issue_id)
                                \o <<"/", "c", "o", "m", "m", "e", "n", "t", "s", "/">>
                                \o IdText(args.comment_id)>>

ClientOps ==
    {"create_issue", "get_issue", "update_issue", "add_comment", "get_comments",
     "delete_comment"}

\* C8: each of the six operations performs exactly one request, with timeout
\* 30, the basic-auth credentials and the JSON headers, and the method and
\* path of its row; delete_comment returns the raw response, the five others
\* the parsed body, and a body that cannot be parsed is a failure.
C8_OneRequestEach ==
    last.op \in ClientOps =>
        /\ Len(sent) = 1
        /\ sent[1].timeout = 30
        /\ sent[1].auth = [username |-> bug_system.api_username,
                           password |-> bug_system.api_password]
        /\ sent[1].headers = [k \in {"Accept", "Content-type"} |-> ApplicationJson]
        /\ <<sent[1].method, sent[1].url>> = Asked(last.op, last.args)
        /\ IF ~IsResponse(last.args.env) THEN last.outcome.kind = "raise"
           ELSE IF last.op = "delete_comment"
                THEN last.outcome = Return(last.args.env.response)
           ELSE IF IsJson(last.args.env)
                THEN last.outcome = Return(last.args.env.response.body)
           ELSE last.outcome.kind = "raise"

C8_Witness ==
    /\ last.op = "delete_comment"
    /\ IsResponse(last.args.env)
    /\ ~IsJson(last.args.env)
    /\ sent[1].method = "DELETE"
    /\ last.outcome = Return(last.args.env.response)

====
